---- MODULE Spec2Model ----
(***************************************************************************)
(* Model of rsi_sim_bot.py: the RSI simulation bot with volatility-based   *)
(* position sizing, retries and a minimum trade size.                      *)
(*                                                                         *)
(* Units.  Money (portfolio['USDT'], amount_to_spend, total_value) is an   *)
(* integer number of cents, and so are prices.  A position's 'amount'     *)
(* (= amount_to_spend / price) is kept as the exact fraction               *)
(* [num |-> cents spent, den |-> price]; amount * p is (num * p) \div den  *)
(* cents.  In the trading loop RSI is an integer 0..100 and NaN is the     *)
(* value RsiNaN; volatility is an integer number of tenths (10 = 1.0);     *)
(* allocation fractions are basis points (5000 = 0.5).  Arithmetic is that *)
(* of the reals: the rounding of binary floating point is not modelled.    *)
(***************************************************************************)
EXTENDS Integers, Sequences, FiniteSets

\* ---------------------------------------------------------------- bounds
NumPairs == 2          \* how many of the TRADING_PAIRS are traded
MaxTicks == 2          \* polling cycles of main()'s while True loop
LOOKBACK_PERIOD == 2   \* rolling buffer length (15 in the source), scaled
MaxSeries == 5         \* longest closing-price series given to calculate_rsi
MaxPeriod == 3         \* largest period given to calculate_rsi

\* ------------------------------------------------------------- constants
RSI_PERIOD == 14
BUY_THRESHOLD == 30
SELL_THRESHOLD == 70
STARTING_BALANCE == 20200
STOP_LOSS_PERCENT == 5
RECENT_DROP_THRESHOLD == 5
MIN_TRADE_USD == 5000
MAX_RETRIES == 3
max_buys_per_cycle == 1

ALL_PAIRS ==
  << "ETHUSDT", "BTCUSDT", "SOLUSDT", "AVAXUSDT",
     "DOGEUSDT", "ADAUSDT", "LTCUSDT", "XRPUSDT" >>

TRADING_PAIRS == SubSeq(ALL_PAIRS, 1, NumPairs)

Pairs == { TRADING_PAIRS[k] : k \in 1..Len(TRADING_PAIRS) }

\* ------------------------------------------------- market data (inputs)
RsiNaN == 0 - 1

\* cents: 95.95 is exactly 5% below 101.00, 99.00 about 2% below it
Prices == {9595, 9900, 10100}
RsiValues == {RsiNaN, 0, 20, 25, 30, 70, 71}
\* tenths: 0.2 / 0.2 is capped to 0.5, 0.2 / 0.4 = 0.5, 0.2 / 1.0 = 0.2
VolValues == {0, 2, 4, 10}

\* fetch_ohlc_* returned None (request failed / error payload)
NoData == [ok |-> FALSE, len |-> 0, close |-> 0, rsi |-> RsiNaN, vol |-> 0]

\* A frame too short for the rolling mean: its RSI is NaN, its volatility 0.
ShortFrames ==
  { [ok |-> TRUE, len |-> 10, close |-> 9900, rsi |-> RsiNaN, vol |-> 0] }

\* A frame of 100 candles with the latest close, latest RSI and volatility:
\* every price and momentum at the volatility that yields the 0.5 fraction,
\* and every volatility at momentum 25.
FullFrames ==
  { [ok |-> TRUE, len |-> 100, close |-> p, rsi |-> r, vol |-> 4] :
      p \in Prices, r \in RsiValues }
  \cup
  { [ok |-> TRUE, len |-> 100, close |-> p, rsi |-> 25, vol |-> v] :
      p \in Prices, v \in VolValues }

fetch_ohlc_kraken == {NoData} \cup ShortFrames \cup FullFrames

fetch_ohlc_binance == {NoData} \cup ShortFrames \cup FullFrames

\* slip: latest_rsi >= 0 accepted
ValidRsi_nonneg(r) == r # RsiNaN /\ r >= 0

\* latest_rsi is not None and latest_rsi > 0   (NaN > 0 is False)
ValidRsi(r) == r # RsiNaN /\ r > 0

\* ------------------------------------------------------------ arithmetic
Min(a, b) == IF a < b THEN a ELSE b
Max(a, b) == IF a > b THEN a ELSE b

\* slip: the quantity cut to whole units before it is priced
Worth_whole(amount, price) == (amount.num \div amount.den) * price

\* amount * price, in cents
Worth(amount, price) == (amount.num * price) \div amount.den

\* --------------------------------------------------------- calculate_rsi
\* An RSI value as an exact fraction num / den, or NaN.
RsiUndefined == [nan |-> TRUE, num |-> 0, den |-> 1]

\* no RSI computed yet
NoRsi == [nan |-> TRUE, num |-> 0, den |-> 0]

RsiNumber(n, d) == [nan |-> FALSE, num |-> n, den |-> d]

\* delta = series.diff(); delta of the first row is NaN (k >= 2 here)
Delta(series, k) == series[k] - series[k - 1]

\* gain = delta.clip(lower=0)
Gain(series, k) == Max(Delta(series, k), 0)

\* loss = -delta.clip(upper=0)
Loss(series, k) == 0 - Min(Delta(series, k), 0)

\* gain.rolling(window=period).mean() at row to, times period
RECURSIVE RollingGain(_, _, _)
RollingGain(series, from, to) ==
  IF from > to THEN 0
  ELSE Gain(series, from) + RollingGain(series, from + 1, to)

\* loss.rolling(window=period).mean() at row to, times period
RECURSIVE RollingLoss(_, _, _)
RollingLoss(series, from, to) ==
  IF from > to THEN 0
  ELSE Loss(series, from) + RollingLoss(series, from + 1, to)

\* rs = avg_gain / avg_loss; rsi = 100 - (100 / (1 + rs)):
\* 0/0 is NaN, g/0 is inf and gives 100, else 100 * g / (g + l)
RsiRatio(g, l) ==
  IF l = 0
  THEN IF g = 0 THEN RsiUndefined ELSE RsiNumber(100, 1)
  ELSE RsiNumber(100 * g, g + l)

\* slip: the two assignments in the other order
EdgeValues_swapped(g, l, r) ==
  IF l = 0 THEN RsiNumber(100, 1) ELSE r

\* rsi[avg_loss == 0] = 100; rsi[(avg_gain == 0) & (avg_loss == 0)] = 50
EdgeValues(g, l, r) ==
  IF g = 0 /\ l = 0 THEN RsiNumber(50, 1)
  ELSE IF l = 0 THEN RsiNumber(100, 1)
  ELSE r

\* calculate_rsi(series, period).iloc[-1]: the rolling mean needs period
\* deltas (min_periods=period), the first row has none
calculate_rsi(series, period) ==
  LET k == Len(series)
  IN  IF k < period + 1 THEN RsiUndefined
      ELSE LET g == RollingGain(series, k - period + 1, k)
               l == RollingLoss(series, k - period + 1, k)
           IN  EdgeValues(g, l, RsiRatio(g, l))

\* closing prices and periods given to calculate_rsi
ClosePrices == {1, 2, 3}

RECURSIVE SeriesOfLen(_)
SeriesOfLen(n) ==
  IF n = 0 THEN {<< >>}
  ELSE { Append(q, c) : q \in SeriesOfLen(n - 1), c \in ClosePrices }

CloseSeries == UNION { SeriesOfLen(n) : n \in 1..MaxSeries }

Periods == 2..MaxPeriod

\* ---------------------------------------------------------- simulate_buy
\* rsi is None or rsi == 0 or np.isnan(rsi)
InvalidRsi(rsi) == rsi = RsiNaN \/ rsi = 0

AboveBuyThreshold(rsi) == rsi >= BUY_THRESHOLD

\* pair in portfolio['positions']
Holding(pair, pos) == pair \in DOMAIN pos

\* slip: the holding check of simulate_buy left out
AlreadyHolding_unchecked(pair, pos) == FALSE

\* holding = pair in portfolio['positions']; if holding: return False
AlreadyHolding(pair, pos) == pair \in DOMAIN pos

\* history.append(price); if len(history) > LOOKBACK_PERIOD: history.pop(0)
PushHistory(history, price) ==
  LET h == Append(history, price)
  IN  IF Len(h) > LOOKBACK_PERIOD THEN Tail(h) ELSE h

\* recent_drop <= -RECENT_DROP_THRESHOLD, with recent_drop = 0.0 while the
\* buffer is not full; ((price - h0) / h0) * 100 compared cross-multiplied
\* (the _strict variant is the slip recent_drop < -RECENT_DROP_THRESHOLD).
RecentDropBlocks_strict(history, price) ==
  /\ Len(history) = LOOKBACK_PERIOD
  /\ (price - history[1]) * 100 < (0 - RECENT_DROP_THRESHOLD) * history[1]

RecentDropBlocks(history, price) ==
  /\ Len(history) = LOOKBACK_PERIOD
  /\ (price - history[1]) * 100 <= (0 - RECENT_DROP_THRESHOLD) * history[1]

\* slip: the cap min(0.5, ...) left out
AllocationPct_uncapped(vol) ==
  IF vol > 0 THEN Max(500, 20000 \div vol) ELSE 1000

\* slip: max(0.5, ...) in place of min(0.5, ...)
AllocationPct_floor(vol) ==
  IF vol > 0 THEN Max(5000, Max(500, 20000 \div vol)) ELSE 1000

\* min(0.5, max(0.05, 0.2 / volatility)) if volatility > 0 else 0.1
AllocationPct(vol) ==
  IF vol > 0 THEN Min(5000, Max(500, 20000 \div vol)) ELSE 1000

AmountToSpend(cash, vol) == (cash * AllocationPct(vol)) \div 10000

\* slip: compared with 0 in place of MIN_TRADE_USD
BelowMinTrade_zero(amount_to_spend) == amount_to_spend < 0

\* amount_to_spend < MIN_TRADE_USD
BelowMinTrade(amount_to_spend) == amount_to_spend < MIN_TRADE_USD

\* amount > 0 and amount_to_spend <= portfolio['USDT']
CanAfford(amount_to_spend, cash) ==
  amount_to_spend > 0 /\ amount_to_spend <= cash

\* portfolio['USDT'] -= amount_to_spend
Debit(cash, amount_to_spend) == cash - amount_to_spend

OpenPosition(pos, pair, amount_to_spend, price) ==
  [q \in DOMAIN pos \cup {pair} |->
     IF q = pair
     THEN [amount |-> [num |-> amount_to_spend, den |-> price],
           buy_price |-> price]
     ELSE pos[q]]

simulate_buy(pair, price, rsi, vol, cash, pos, hist) ==
  LET rejected == [ret |-> FALSE, USDT |-> cash, positions |-> pos,
                   price_history |-> hist, spend |-> 0]
  IN
  IF InvalidRsi(rsi) THEN rejected
  ELSE IF AboveBuyThreshold(rsi) THEN rejected
  ELSE IF AlreadyHolding(pair, pos) THEN rejected
  ELSE
    LET history == PushHistory(hist[pair], price)
        hist2 == [hist EXCEPT ![pair] = history]
        amount_to_spend == AmountToSpend(cash, vol)
        skipped == [rejected EXCEPT !.price_history = hist2]
    IN
    IF RecentDropBlocks(history, price) THEN skipped
    ELSE IF BelowMinTrade(amount_to_spend) THEN skipped
    ELSE IF CanAfford(amount_to_spend, cash)
      THEN [ret |-> TRUE,
            USDT |-> Debit(cash, amount_to_spend),
            positions |-> OpenPosition(pos, pair, amount_to_spend, price),
            price_history |-> hist2,
            spend |-> amount_to_spend]
      ELSE skipped

\* --------------------------------------------------------- simulate_sell
\* loss_pct <= -STOP_LOSS_PERCENT, loss_pct = (price - buy_price) /
\* buy_price * 100, compared cross-multiplied (the _strict variant is the
\* slip loss_pct < -STOP_LOSS_PERCENT).
StopLossTriggered_strict(price, buy_price) ==
  (price - buy_price) * 100 < (0 - STOP_LOSS_PERCENT) * buy_price

StopLossTriggered(price, buy_price) ==
  (price - buy_price) * 100 <= (0 - STOP_LOSS_PERCENT) * buy_price

\* rsi > SELL_THRESHOLD
SellSignal(rsi) == rsi # RsiNaN /\ rsi > SELL_THRESHOLD

\* holding = pair in portfolio['positions']; if not holding: return False
NothingToSell(pair, pos) == pair \notin DOMAIN pos

\* slip: portfolio['USDT'] -= amount * price
Credit_debits(cash, proceeds) == cash - proceeds

\* portfolio['USDT'] += amount * price
Credit(cash, proceeds) == cash + proceeds

\* profit = (price - buy_price) * amount
Profit(price, buy_price, amount) ==
  ((price - buy_price) * amount.num) \div amount.den

ClosePosition(pos, pair) == [q \in DOMAIN pos \ {pair} |-> pos[q]]

simulate_sell(pair, price, rsi, cash, pos) ==
  LET kept == [ret |-> FALSE, USDT |-> cash, positions |-> pos, profit |-> 0]
  IN
  IF NothingToSell(pair, pos) THEN kept
  ELSE
    LET buy_price == pos[pair].buy_price
        amount == pos[pair].amount
    IN
    IF StopLossTriggered(price, buy_price)
    THEN [ret |-> TRUE,
          USDT |-> Credit(cash, Worth(amount, price)),
          positions |-> ClosePosition(pos, pair),
          profit |-> 0]
    ELSE IF SellSignal(rsi)
    THEN [ret |-> TRUE,
          USDT |-> Credit(cash, Worth(amount, price)),
          positions |-> ClosePosition(pos, pair),
          profit |-> Profit(price, buy_price, amount)]
    ELSE kept

\* ------------------------------------------------------------------ main
\* slip: the sell put under the per-cycle buy limit
SellStep_limited(pair, price, rsi, cash, pos, buys) ==
  IF buys < max_buys_per_cycle
  THEN simulate_sell(pair, price, rsi, cash, pos)
  ELSE [ret |-> FALSE, USDT |-> cash, positions |-> pos, profit |-> 0]

\* sold = simulate_sell(pair, latest_price, latest_rsi)
SellStep(pair, price, rsi, cash, pos, buys) ==
  simulate_sell(pair, price, rsi, cash, pos)

\* slip: the per-cycle limit left out
BuyAllowed_unlimited(sold, buys) == ~sold

\* slip: "not sold" left out
BuyAllowed_afterSell(sold, buys) == buys < max_buys_per_cycle

\* not sold and buys_this_cycle < max_buys_per_cycle
BuyAllowed(sold, buys) == ~sold /\ buys < max_buys_per_cycle

\* df is None or len(df) < RSI_PERIOD
NotEnoughData(d) == ~d.ok \/ d.len < RSI_PERIOD

VARIABLES
  USDT,             \* portfolio['USDT']
  positions,        \* portfolio['positions']
  price_history,    \* price_history[pair]
  pc,               \* "fetch" | "eval" | "report"
  i,                \* index of the pair of the for loop
  attempt,          \* fetch_data_with_retry: 1..MAX_RETRIES Kraken, then Binance
  df,               \* result of fetch_data_with_retry
  buys_this_cycle,
  total_value,
  tick,             \* number of the current cycle
  resp,             \* history: the latest provider response for this pair
  last,             \* history: what the loop body just executed did
  open,             \* history: buys minus closes applied per pair
  seen,             \* history: price evaluated per pair in this cycle, 0 if none
  bought_now,       \* history: pair and momentum of the buy of this cycle
  calls,            \* history: provider queries made for the current pair
  visited,          \* history: pairs whose loop body has run in this cycle
  entry,            \* history: per pair, the cash just before its buy while
                    \*   no other trade was applied since, else NoEntry
  start,            \* history: ledger at the start of this cycle
  series,           \* calculate_rsi: the closing prices given
  period,           \* calculate_rsi: the period given
  rsi_out           \* calculate_rsi: NoRsi before the call, then the latest RSI

vars == << USDT, positions, price_history, pc, i, attempt, df,
           buys_this_cycle, total_value, tick, resp, last, open, seen,
           bought_now, calls, visited, entry, start, series, period,
           rsi_out >>

rsiVars == << series, period, rsi_out >>

NoEntry == 0 - 1

NoCalls == [kraken |-> 0, binance |-> 0]

NoPositions == [q \in {} |-> 0]

NoBuy == [pair |-> "", rsi |-> RsiNaN]

NoStep ==
  [pair |-> "", evaluated |-> FALSE, frame |-> NoData, resp |-> NoData,
   heldBefore |-> FALSE, cashBefore |-> 0, posBefore |-> NoPositions,
   histBefore |-> << >>, buysBefore |-> 0,
   entryBefore |-> NoEntry, boughtBefore |-> "",
   sold |-> FALSE, tried |-> FALSE, bought |-> FALSE, spend |-> 0,
   profit |-> 0]

Portfolio ==
  /\ USDT = STARTING_BALANCE
  /\ positions = NoPositions
  /\ price_history = [p \in Pairs |-> << >>]
  /\ pc = "fetch"
  /\ i = 1
  /\ attempt = 1
  /\ df = NoData
  /\ buys_this_cycle = 0
  /\ total_value = STARTING_BALANCE
  /\ tick = 1
  /\ resp = NoData
  /\ last = NoStep
  /\ open = [p \in Pairs |-> 0]
  /\ seen = [p \in Pairs |-> 0]
  /\ bought_now = NoBuy
  /\ entry = [p \in Pairs |-> NoEntry]
  /\ visited = {}
  /\ calls = NoCalls
  /\ start = [USDT |-> STARTING_BALANCE, positions |-> NoPositions,
              price_history |-> [p \in Pairs |-> << >>]]

Init ==
  /\ Portfolio
  /\ series = << >>
  /\ period = RSI_PERIOD
  /\ rsi_out = NoRsi

\* slip: range(1, MAX_RETRIES + 2)
KrakenTurn_extra(a) == a <= MAX_RETRIES + 1

\* for attempt in range(1, MAX_RETRIES + 1)
KrakenTurn(a) == a <= MAX_RETRIES

\* fetch_data_with_retry: one Kraken attempt of the retry loop
FetchKraken ==
  /\ pc = "fetch"
  /\ UNCHANGED rsiVars
  /\ KrakenTurn(attempt)
  /\ calls' = [calls EXCEPT !.kraken = @ + 1]
  /\ \E r \in fetch_ohlc_kraken :
       /\ resp' = r
       /\ IF r.ok /\ ValidRsi(r.rsi)
          THEN /\ df' = r
               /\ pc' = "eval"
               /\ UNCHANGED attempt
          ELSE /\ attempt' = attempt + 1
               /\ UNCHANGED << df, pc >>
  /\ last' = NoStep
  /\ UNCHANGED << USDT, positions, price_history, i, buys_this_cycle,
                  total_value, tick, open, seen, bought_now, visited,
                  entry, start >>

\* fetch_data_with_retry: the Binance fallback after the retry loop
FetchBinance ==
  /\ pc = "fetch"
  /\ UNCHANGED rsiVars
  /\ ~KrakenTurn(attempt)
  /\ calls' = [calls EXCEPT !.binance = @ + 1]
  /\ \E r \in fetch_ohlc_binance :
       /\ resp' = r
       /\ df' = IF r.ok /\ ValidRsi(r.rsi) THEN r ELSE NoData
  /\ pc' = "eval"
  /\ last' = NoStep
  /\ UNCHANGED << USDT, positions, price_history, i, attempt,
                  buys_this_cycle, total_value, tick, open, seen,
                  bought_now, visited, entry, start >>

\* where the for loop goes after the body of pair i
Advance ==
  /\ i' = i + 1
  /\ attempt' = 1
  /\ df' = NoData
  /\ resp' = NoData
  /\ calls' = NoCalls
  /\ pc' = IF i = Len(TRADING_PAIRS) THEN "report" ELSE "fetch"

\* slip: break in place of continue
Continue_break ==
  /\ i' = Len(TRADING_PAIRS) + 1
  /\ attempt' = 1
  /\ df' = NoData
  /\ resp' = NoData
  /\ calls' = NoCalls
  /\ pc' = "report"

\* continue: on to the next pair of the for loop
Continue == Advance

\* body of the for loop when the frame is missing or too short: continue
Skip ==
  /\ pc = "eval"
  /\ UNCHANGED rsiVars
  /\ NotEnoughData(df)
  /\ Continue
  /\ visited' = visited \cup {TRADING_PAIRS[i]}
  /\ last' = [NoStep EXCEPT !.pair = TRADING_PAIRS[i],
                            !.resp = resp,
                            !.heldBefore = Holding(TRADING_PAIRS[i], positions),
                            !.cashBefore = USDT,
                            !.posBefore = positions,
                            !.histBefore = price_history[TRADING_PAIRS[i]],
                            !.buysBefore = buys_this_cycle,
                            !.boughtBefore = bought_now.pair]
  /\ UNCHANGED << USDT, positions, price_history, buys_this_cycle,
                  total_value, tick, open, seen, bought_now, entry, start >>

\* body of the for loop: sell, then buy, then add the position's value
Evaluate ==
  /\ pc = "eval"
  /\ UNCHANGED rsiVars
  /\ ~NotEnoughData(df)
  /\ LET pair == TRADING_PAIRS[i]
         latest_rsi == df.rsi
         latest_price == df.close
         s == SellStep(pair, latest_price, latest_rsi, USDT, positions,
                       buys_this_cycle)
         tried == BuyAllowed(s.ret, buys_this_cycle)
         b == IF tried
              THEN simulate_buy(pair, latest_price, latest_rsi, df.vol,
                                s.USDT, s.positions, price_history)
              ELSE [ret |-> FALSE, USDT |-> s.USDT,
                    positions |-> s.positions,
                    price_history |-> price_history, spend |-> 0]
     IN
     /\ USDT' = b.USDT
     /\ positions' = b.positions
     /\ price_history' = b.price_history
     /\ buys_this_cycle' = IF b.ret THEN buys_this_cycle + 1
                           ELSE buys_this_cycle
     /\ total_value' = IF Holding(pair, b.positions)
                       THEN total_value
                            + Worth(b.positions[pair].amount, latest_price)
                       ELSE total_value
     /\ last' = [pair |-> pair, evaluated |-> TRUE, frame |-> df,
                 resp |-> resp,
                 heldBefore |-> Holding(pair, positions),
                 cashBefore |-> USDT, posBefore |-> positions,
                 histBefore |-> price_history[pair],
                 buysBefore |-> buys_this_cycle,
                 entryBefore |-> entry[pair],
                 boughtBefore |-> bought_now.pair,
                 sold |-> s.ret, tried |-> tried, bought |-> b.ret,
                 spend |-> b.spend, profit |-> s.profit]
     /\ entry' = IF s.ret \/ b.ret
                 THEN [q \in Pairs |->
                         IF q = pair /\ b.ret THEN s.USDT ELSE NoEntry]
                 ELSE entry
     /\ open' = [open EXCEPT ![pair] =
                   @ - (IF s.ret THEN 1 ELSE 0) + (IF b.ret THEN 1 ELSE 0)]
     /\ seen' = [seen EXCEPT ![pair] = latest_price]
     /\ bought_now' = IF b.ret THEN [pair |-> pair, rsi |-> latest_rsi]
                      ELSE bought_now
  /\ visited' = visited \cup {TRADING_PAIRS[i]}
  /\ Advance
  /\ UNCHANGED << tick, start >>

\* print the portfolio value, sleep, and start the next cycle
Report ==
  /\ pc = "report"
  /\ UNCHANGED rsiVars
  /\ tick < MaxTicks
  /\ tick' = tick + 1
  /\ buys_this_cycle' = 0
  /\ total_value' = USDT
  /\ i' = 1
  /\ attempt' = 1
  /\ df' = NoData
  /\ resp' = NoData
  /\ pc' = "fetch"
  /\ seen' = [p \in Pairs |-> 0]
  /\ bought_now' = NoBuy
  /\ visited' = {}
  /\ calls' = NoCalls
  /\ start' = [USDT |-> USDT, positions |-> positions,
               price_history |-> price_history]
  /\ last' = NoStep
  /\ UNCHANGED << USDT, positions, price_history, open, entry >>

Next == FetchKraken \/ FetchBinance \/ Skip \/ Evaluate \/ Report

Spec == Init /\ [][Next]_vars

\* ------------------------------------------- calculate_rsi on its own
InitRsi ==
  /\ Portfolio
  /\ series \in CloseSeries
  /\ period \in Periods
  /\ rsi_out = NoRsi

\* df['rsi'] = calculate_rsi(df['close'], period); df['rsi'].iloc[-1]
ComputeRsi ==
  /\ rsi_out = NoRsi
  /\ rsi_out' = calculate_rsi(series, period)
  /\ UNCHANGED << USDT, positions, price_history, pc, i, attempt, df,
                  buys_this_cycle, total_value, tick, resp, last, open,
                  seen, bought_now, calls, visited, entry, start, series,
                  period >>

NextRsi == ComputeRsi

SpecRsi == InitRsi /\ [][NextRsi]_vars

\* ================================================================ claims
\* C1: in every reachable state, also between the steps of one cycle, the
\* cash balance is >= 0, and a buy just applied took a positive amount that
\* is no more than the cash held immediately before it.
C1_CashNeverNegative ==
  /\ USDT >= 0
  /\ last.bought => /\ last.cashBefore - USDT > 0
                    /\ last.cashBefore - USDT <= last.cashBefore

\* a second buy, made from the 101.00 left by the first
C1_Witness == last.bought /\ last.cashBefore = 10100 /\ USDT = 5050

\* C2 (as claimed): a held instrument whose current price is at or below the
\* stop-loss level is closed by its step of the cycle, whatever the momentum
\* that came with that price.
C2_StopLossWhateverMomentum ==
  (/\ last.pair # ""
   /\ last.heldBefore
   /\ last.resp.ok
   /\ (last.resp.close - last.posBefore[last.pair].buy_price) * 100
        <= (0 - STOP_LOSS_PERCENT) * last.posBefore[last.pair].buy_price)
  => last.pair \notin DOMAIN positions

\* C2 (amended): a held instrument for which fetch_data_with_retry returned
\* a frame (latest momentum defined and > 0) and whose price is at or below
\* the stop-loss level is closed by its step of the cycle, whatever that
\* momentum is, and the cash is credited with amount * price.
C2_StopLossWhenEvaluated ==
  (/\ last.evaluated
   /\ last.heldBefore
   /\ (last.frame.close - last.posBefore[last.pair].buy_price) * 100
        <= (0 - STOP_LOSS_PERCENT) * last.posBefore[last.pair].buy_price)
  => /\ last.sold
     /\ last.pair \notin DOMAIN positions
     /\ USDT = last.cashBefore
               + Worth(last.posBefore[last.pair].amount, last.frame.close)

\* bought at 101.00, now at 95.95 (exactly -5%) with momentum 25, and sold
C2_Witness ==
  /\ last.evaluated /\ last.heldBefore /\ last.sold
  /\ last.posBefore[last.pair].buy_price = 10100
  /\ last.frame.close = 9595
  /\ last.frame.rsi = 25

RECURSIVE SumOpen(_, _, _)
SumOpen(S, pos, price) ==
  IF S = {} THEN 0
  ELSE LET p == CHOOSE x \in S : TRUE
       IN  Worth(pos[p].amount, price[p]) + SumOpen(S \ {p}, pos, price)

\* C3: the portfolio value reported at the end of a cycle is the cash at the
\* end of the cycle plus the sum of amount * current price over the positions
\* open at the end of the cycle (stated for cycles in which every open
\* position got a price).
C3_ReportedValueIsMarkToMarket ==
  (pc = "report" /\ \A p \in DOMAIN positions : seen[p] > 0)
  => total_value = USDT + SumOpen(DOMAIN positions, positions, seen)

\* C4: when an instrument that is not held satisfies the buy conditions in a
\* cycle whose single buy went to another instrument, the instrument bought
\* is the one with the lower momentum: its momentum is not above that of the
\* instrument passed over (ties aside, which the id would settle).
C4_LowestMomentumBought ==
  (/\ last.evaluated
   /\ ~last.heldBefore
   /\ last.frame.rsi < BUY_THRESHOLD
   /\ ~RecentDropBlocks(PushHistory(last.histBefore, last.frame.close),
                        last.frame.close)
   /\ AmountToSpend(start.USDT, last.frame.vol) >= MIN_TRADE_USD
   /\ bought_now.pair # ""
   /\ bought_now.pair # last.pair)
  => bought_now.rsi <= last.frame.rsi

\* C5: per instrument, buys and closes alternate starting with a buy: the
\* buys applied minus the closes applied is 0 or 1, and is 1 exactly while
\* the instrument has a position; a buy is applied only to an instrument that
\* was flat and a close only to one that was held.
C5_BuyCloseAlternate ==
  /\ \A p \in Pairs : /\ open[p] \in {0, 1}
                      /\ open[p] = 1 <=> p \in DOMAIN positions
  /\ last.bought => ~last.heldBefore
  /\ last.sold => last.heldBefore

\* a position bought in one cycle and closed in the next
C5_Witness ==
  /\ last.sold
  /\ open[last.pair] = 0
  /\ last.pair \notin DOMAIN positions

\* C6: an applied buy takes at least MIN_TRADE_USD from the cash, for every
\* cash balance and volatility, and a buy attempt that is rejected leaves
\* cash and positions as they were.
C6_MinTradeGuard ==
  /\ last.bought => last.cashBefore - USDT >= MIN_TRADE_USD
  /\ (last.tried /\ ~last.bought)
       => USDT = last.cashBefore /\ positions = last.posBefore

\* zero volatility, momentum 25, flat, past the recent-drop guard: the
\* default fraction of the cash is below the minimum and the buy is rejected
C6_Witness ==
  /\ last.tried /\ ~last.bought /\ ~last.heldBefore
  /\ last.frame.vol = 0
  /\ last.frame.rsi = 25
  /\ ~RecentDropBlocks(price_history[last.pair], last.frame.close)
  /\ last.cashBefore \div 10 < MIN_TRADE_USD

\* the scenario of C7: cash 200.00, flat, no buy yet in this cycle, momentum
\* 25, volatility 1.0 (fraction 0.2), recent drop above the threshold
C7_Scenario ==
  /\ last.evaluated
  /\ last.cashBefore = 20000
  /\ ~last.heldBefore
  /\ last.buysBefore = 0
  /\ last.frame.rsi = 25
  /\ last.frame.vol = 10
  /\ ~RecentDropBlocks(price_history[last.pair], last.frame.close)

\* C7 (as claimed): in the scenario a BUY is applied that spends 40.00,
\* creates a position of quantity 40.00 / price and leaves cash 160.00.
C7_ScenarioBuys40 ==
  C7_Scenario
  => /\ last.bought
     /\ USDT = 16000
     /\ last.pair \in DOMAIN positions
     /\ positions[last.pair].amount
          = [num |-> 4000, den |-> last.frame.close]

\* C7 (amended): in the scenario the proposed spend of 40.00 is below
\* MIN_TRADE_USD (50.00), so no BUY is applied: cash stays 200.00 and no
\* position is created.
C7_ScenarioRejected ==
  C7_Scenario
  => /\ ~last.bought
     /\ USDT = 20000
     /\ positions = last.posBefore

C7_Witness == C7_Scenario /\ last.tried /\ USDT = 20000

\* C8: when the latest momentum of an instrument in a cycle is undefined or
\* exactly 0, its step applies neither a buy nor a sell and leaves the cash,
\* its position and its price-history buffer unchanged.
C8_InvalidMomentumNotActionable ==
  (last.pair # "" /\ (last.resp.rsi = RsiNaN \/ last.resp.rsi = 0))
  => /\ ~last.sold
     /\ ~last.bought
     /\ USDT = last.cashBefore
     /\ positions = last.posBefore
     /\ price_history[last.pair] = last.histBefore

\* a held instrument at its stop-loss level whose momentum is exactly 0
C8_Witness ==
  /\ last.pair # ""
  /\ last.resp.ok
  /\ last.resp.rsi = 0
  /\ last.heldBefore
  /\ (last.resp.close - last.posBefore[last.pair].buy_price) * 100
       <= (0 - STOP_LOSS_PERCENT) * last.posBefore[last.pair].buy_price

\* the cap on concurrent positions of C9: the code's only cap
MaxPositions == max_buys_per_cycle

\* C9: the number of open positions never exceeds MaxPositions, and a buy
\* is applied only in a cycle that started with fewer than MaxPositions
\* open positions.
C9_PositionCap ==
  /\ Cardinality(DOMAIN positions) <= MaxPositions
  /\ last.bought => Cardinality(DOMAIN start.positions) < MaxPositions

\* C10: a held instrument that is evaluated with momentum > SELL_THRESHOLD
\* or at or below its stop-loss level is closed by its step, however many
\* buys or sells the cycle has already applied.
C10_SellsNeverRateLimited ==
  (/\ last.evaluated
   /\ last.heldBefore
   /\ \/ last.frame.rsi > SELL_THRESHOLD
      \/ (last.frame.close - last.posBefore[last.pair].buy_price) * 100
           <= (0 - STOP_LOSS_PERCENT) * last.posBefore[last.pair].buy_price)
  => last.sold /\ last.pair \notin DOMAIN positions

\* a sell applied after the cycle's buy limit was reached
C10_Witness ==
  /\ last.sold
  /\ last.buysBefore = max_buys_per_cycle
  /\ last.frame.rsi > SELL_THRESHOLD

C12_FetchFailureIsolated ==
  /\ (last.pair # "" /\ ~last.evaluated)
       => /\ USDT = last.cashBefore
          /\ positions = last.posBefore
          /\ price_history[last.pair] = last.histBefore
          /\ last.pair \in visited
          /\ pc = "fetch" => TRADING_PAIRS[i] \notin visited
  /\ pc = "report" => visited = Pairs

\* the first pair was skipped, the second evaluated and bought, and the
\* cycle is at its report
C12_Witness ==
  /\ pc = "report"
  /\ seen[TRADING_PAIRS[1]] = 0
  /\ TRADING_PAIRS[1] \in visited
  /\ last.evaluated
  /\ last.bought

\* C13: a buy is applied to an instrument only if the instrument was not
\* held, its momentum is below BUY_THRESHOLD, and its price is more than
\* -RECENT_DROP_THRESHOLD percent away from the oldest price of its buffer
\* when the buffer (this price included) has LOOKBACK_PERIOD entries; a drop
\* of exactly -RECENT_DROP_THRESHOLD percent blocks the buy.
C13_BuyConditions ==
  last.bought
  => /\ ~last.heldBefore
     /\ last.frame.rsi # RsiNaN
     /\ last.frame.rsi < BUY_THRESHOLD
     /\ price_history[last.pair][Len(price_history[last.pair])]
          = last.frame.close
     /\ Len(price_history[last.pair]) = LOOKBACK_PERIOD
          => (last.frame.close - price_history[last.pair][1]) * 100
               > (0 - RECENT_DROP_THRESHOLD) * price_history[last.pair][1]

\* a buy made with a full buffer whose oldest price is above the current one
C13_Witness ==
  /\ last.bought
  /\ Len(price_history[last.pair]) = LOOKBACK_PERIOD
  /\ price_history[last.pair][1] = 10100
  /\ last.frame.close = 9900

\* C14: after the step of an instrument that was evaluated, its buffer is
\* the buffer it had before with this cycle's price appended and the oldest
\* entry evicted beyond LOOKBACK_PERIOD entries, whatever the momentum and
\* whether or not the instrument is held; its length never exceeds
\* LOOKBACK_PERIOD.
C14_BufferHoldsEveryObservation ==
  /\ \A p \in Pairs : Len(price_history[p]) <= LOOKBACK_PERIOD
  /\ last.evaluated
       => price_history[last.pair]
            = IF Len(last.histBefore) < LOOKBACK_PERIOD
              THEN Append(last.histBefore, last.frame.close)
              ELSE Append(Tail(last.histBefore), last.frame.close)

\* Wilder-smoothed average at row k, as a fraction: seeded at row period + 1
\* by the mean of the first period values, then avg + (x - avg) / period
RECURSIVE WilderGain(_, _, _)
WilderGain(s, p, k) ==
  IF k = p + 1 THEN [num |-> RollingGain(s, 2, p + 1), den |-> p]
  ELSE LET a == WilderGain(s, p, k - 1)
       IN  [num |-> a.num * (p - 1) + Gain(s, k) * a.den, den |-> a.den * p]

RECURSIVE WilderLoss(_, _, _)
WilderLoss(s, p, k) ==
  IF k = p + 1 THEN [num |-> RollingLoss(s, 2, p + 1), den |-> p]
  ELSE LET a == WilderLoss(s, p, k - 1)
       IN  [num |-> a.num * (p - 1) + Loss(s, k) * a.den, den |-> a.den * p]

\* C15: for a series of at least period + 1 prices, the latest RSI is
\* 100 - 100 / (1 + avgGain / avgLoss), that is 100 * avgGain / (avgGain +
\* avgLoss), with the Wilder-smoothed averages (stated where the Wilder
\* averages are both nonzero, so that no edge value is involved).
C15_WilderSmoothing ==
  (/\ rsi_out # NoRsi
   /\ Len(series) >= period + 1
   /\ WilderGain(series, period, Len(series)).num > 0
   /\ WilderLoss(series, period, Len(series)).num > 0)
  => /\ ~rsi_out.nan
     /\ rsi_out.num * (WilderGain(series, period, Len(series)).num
                       + WilderLoss(series, period, Len(series)).num)
          = 100 * WilderGain(series, period, Len(series)).num * rsi_out.den

\* C16: the latest RSI is undefined when fewer than period deltas exist;
\* with period deltas, it is exactly 50 when the last period deltas are all
\* zero, and exactly 100 when none of them is a loss and one is a gain.
C16_EdgeValues ==
  rsi_out # NoRsi
  => /\ Len(series) - 1 < period => rsi_out.nan
     /\ (/\ Len(series) - 1 >= period
         /\ \A k \in (Len(series) - period + 1)..Len(series) :
              series[k] = series[k - 1])
          => ~rsi_out.nan /\ rsi_out.num = 50 * rsi_out.den
     /\ (/\ Len(series) - 1 >= period
         /\ \A k \in (Len(series) - period + 1)..Len(series) :
              series[k] >= series[k - 1]
         /\ \E k \in (Len(series) - period + 1)..Len(series) :
              series[k] > series[k - 1])
          => ~rsi_out.nan /\ rsi_out.num = 100 * rsi_out.den

\* a series that moved and then stayed flat for period deltas: RSI 50
C16_Witness ==
  /\ rsi_out # NoRsi
  /\ period = 2
  /\ series = << 1, 2, 2, 2 >>
  /\ rsi_out = RsiNumber(50, 1)

\* C17: at most one buy is applied in a cycle: a buy is applied only when no
\* buy has been applied earlier in the cycle, and a buy attempt that is
\* rejected leaves the cycle's allowance as it was (the count of buys stays
\* 0 until a buy is applied).
C17_OneBuyPerTick ==
  /\ last.bought => last.boughtBefore = ""
  /\ (last.tried /\ ~last.bought) => buys_this_cycle = last.buysBefore
  /\ bought_now.pair = "" => buys_this_cycle = 0

\* the first pair's attempt was rejected (its buffer grew, it has no
\* position) and the second pair was bought in the same cycle
C17_Witness ==
  /\ last.bought
  /\ last.pair = TRADING_PAIRS[2]
  /\ TRADING_PAIRS[1] \notin DOMAIN positions
  /\ TRADING_PAIRS[1] \notin DOMAIN start.positions
  /\ price_history[TRADING_PAIRS[1]] # start.price_history[TRADING_PAIRS[1]]

\* C19: an applied buy takes at least MIN_TRADE_USD, at most 50% and (to the
\* cent) at least 5% of the cash held just before it; so no buy is applied
\* while the cash is below 2 * MIN_TRADE_USD, and the cash stays strictly
\* positive.
C19_SpendBounds ==
  /\ USDT > 0
  /\ last.bought
       => /\ last.cashBefore - USDT >= MIN_TRADE_USD
          /\ 2 * (last.cashBefore - USDT) <= last.cashBefore
          /\ 20 * (last.cashBefore - USDT + 1) > last.cashBefore
          /\ last.cashBefore >= 2 * MIN_TRADE_USD

\* volatility 0.2: 0.2 / 0.2 = 1.0 is capped and half of the cash is spent
C19_Witness ==
  /\ last.bought
  /\ last.frame.vol = 2
  /\ 2 * (last.cashBefore - USDT) = last.cashBefore

\* C20: an instrument closed by its step is not offered to simulate_buy and
\* not bought in that step (its only step of the cycle), so it is flat after
\* it; and a position that is open before and after a step has the same
\* amount and buy_price.
C20_NoRebuyNoModification ==
  /\ last.sold => /\ ~last.tried
                  /\ ~last.bought
                  /\ last.pair \notin DOMAIN positions
                  /\ price_history[last.pair] = last.histBefore
  /\ last.pair # ""
       => \A p \in DOMAIN last.posBefore \cap DOMAIN positions :
            positions[p] = last.posBefore[p]

\* a stop-loss close at momentum 25, which is below BUY_THRESHOLD, while
\* another position stays open untouched
C20_Witness ==
  /\ last.sold
  /\ last.frame.rsi = 25
  /\ DOMAIN positions # {}
  /\ DOMAIN positions \subseteq DOMAIN last.posBefore

\* C18: fetch_data_with_retry ends after at most MAX_RETRIES Kraken queries
\* and one Binance query: while it runs a query is always possible, every
\* Kraken answer so far was unusable and Binance has not been asked; Binance
\* is asked only after MAX_RETRIES Kraken queries; what it returns is the
\* latest answer when that has an RSI > 0, and None otherwise, which happens
\* only after the Binance query.
C18_RetryThenFallback ==
  /\ calls.kraken <= MAX_RETRIES
  /\ calls.binance <= 1
  /\ calls.binance = 1 => calls.kraken = MAX_RETRIES
  /\ pc = "fetch"
       => /\ calls.binance = 0
          /\ calls.kraken > 0
               => ~(resp.ok /\ resp.rsi # RsiNaN /\ resp.rsi > 0)
          /\ ENABLED (FetchKraken \/ FetchBinance)
  /\ pc = "eval"
       => IF df.ok
          THEN df = resp /\ df.rsi # RsiNaN /\ df.rsi > 0
          ELSE /\ calls.binance = 1
               /\ ~(resp.ok /\ resp.rsi # RsiNaN /\ resp.rsi > 0)

\* three unusable Kraken answers, then a usable frame from Binance
C18_Witness ==
  /\ pc = "eval"
  /\ calls.kraken = MAX_RETRIES
  /\ calls.binance = 1
  /\ df.ok
  /\ df.rsi = 25

====
